---- MODULE Spec2Model ----
(***************************************************************************)
(* A model of src/data_generation/data_generator.py: the population        *)
(* synthesizer generate_synthetic_data, which draws every random column    *)
(* from numpy's process-wide generator after seeding it, and the           *)
(* event-table projector create_dataframes.                                *)
(*                                                                         *)
(* Numbers.  Real quantities are kept exactly, as integer numerators over  *)
(* a fixed denominator that each definition states (tenths, percent,       *)
(* thousandths, ...).  A uniform variate u in [0, 1) is raw / RngMod where *)
(* raw is the generator's output, and every distribution is the affine     *)
(* image of u that numpy computes, rounded down to the integer grid.       *)
(***************************************************************************)
EXTENDS Integers, Sequences, FiniteSets, TLC

(***************************************************************************)
(* Bounds of the model.                                                    *)
(***************************************************************************)
MaxUsers == 3
RngMod == 16
SeedSpan == 1
MaxDropped == 1
MaxPreempt == 2

(***************************************************************************)
(* Constants of the program.                                               *)
(***************************************************************************)
DefaultSeed == 40
AgeLow == 18
AgeHigh == 65
EngagementScale == 10
CountryBuckets == 3
PlatformBuckets == 2
SegmentBuckets == 4
PostDay == 10
PreDay == 1
AllocationDay == 5
TreatmentLabel == "b"

VARIABLES
    rng,        \* state of numpy's process-wide generator (np.random)
    pc,         \* position of the sequential caller
    args,       \* arguments of the latest generate_synthetic_data call
    out,        \* what that call produced: a table, or an exception
    prevArgs,   \* arguments of the invocation before the latest one
    prevOut,    \* and what it produced
    given,      \* the population handed to create_dataframes
    proj,       \* what create_dataframes produced
    wpc,        \* concurrent workers: "idle", "running" or "returned"
    wargs,      \* concurrent workers: arguments
    wdraws,     \* concurrent workers: raw draws so far, one entry per block
    wout,       \* concurrent workers: returned table
    running,    \* the worker that took the latest step (0: none yet)
    preempts    \* number of preemptions of an unfinished worker so far

vars == <<rng, pc, args, out, prevArgs, prevOut, given, proj,
          wpc, wargs, wdraws, wout, running, preempts>>
seqVars == <<pc, args, out, prevArgs, prevOut, given, proj>>
concVars == <<wpc, wargs, wdraws, wout, running, preempts>>

(***************************************************************************)
(* numpy's generator.  np.random.seed(seed) sets the whole state from the  *)
(* seed; every variate drawn advances the state once and is computed from  *)
(* the new state.                                                          *)
(***************************************************************************)
Seeded(seed) == (7 * seed + 3) % RngMod

\* The seeding left out: the generator stays in the state it was in.
seed_generator_skipped(s, seed) == s

\* line 31: np.random.seed(seed) on a generator in state s
seed_generator(s, seed) == Seeded(seed)

Step(s) == (5 * s + 3) % RngMod

\* The next k raw outputs of a generator in state s, in order.
RECURSIVE Stream(_, _)
Stream(s, k) == IF k <= 0 THEN <<>> ELSE <<Step(s)>> \o Stream(Step(s), k - 1)

\* The state after k variates were drawn from state s.
Advance(s, k) == IF k <= 0 THEN s ELSE Stream(s, k)[k]

\* One call drawing n variates from state s.
DrawBlock(s, n) == Stream(s, n)

\* floor(n * u): what randint(0, n) and the cdf search of choice(p=...) return.
Below(raw, n) == (raw * n) \div RngMod

\* np.random.uniform(low, high): low + (high - low) * u, with no check that
\* low <= high.
Uniform(raw, low, high) == low + ((high - low) * raw) \div RngMod

\* A standard normal variate on a five-point symmetric grid.
Gauss(raw) == Below(raw, 5) - 2

\* np.random.normal(loc, scale): loc + scale * z.
Normal(raw, loc, scale) == loc + scale * Gauss(raw)

(***************************************************************************)
(* generate_synthetic_data                                                 *)
(***************************************************************************)

\* The calls that draw from the generator, in the order the function makes
\* them (lines 36-41, 54-56, 63-64, 68, 71-73); each draws num_users variates.
Blocks == <<"country", "platform", "user_segment", "abgroup", "age",
            "engagement_score", "country_mult", "platform_mult",
            "segment_mult", "treatment", "other", "noise",
            "coupling", "scaling", "wobble", "offset">>

BlockNo(name) == CHOOSE b \in 1..Len(Blocks) : Blocks[b] = name

\* Whether the call of block b raises ValueError for arguments a.  numpy
\* checks its arguments before it draws: a negative size always raises;
\* choice raises on an empty population unless no sample is taken, and on a
\* population whose size differs from that of p; normal raises on scale < 0.
\* uniform and randint(18, 65) check nothing else.
Raises(a, b) ==
    LET n == a.num_users
        name == Blocks[b]
    IN  \/ n < 0
        \/ /\ name = "country"
           /\ Len(a.countries) = 0 /\ n # 0
        \/ /\ name = "platform"
           /\ Len(a.platforms) = 0 /\ n # 0
        \/ /\ name = "user_segment"
           /\ Len(a.user_segments) = 0 /\ n # 0
        \/ /\ name = "abgroup"
           /\ \/ Len(a.ab_groups) = 0 /\ n # 0
              \/ Len(a.ab_groups) # 3
        \/ /\ name = "noise"
           /\ a.noise_level < 0

\* The first call that raises, or 0 when none does.
RaisingBlock(a) ==
    IF \E b \in 1..Len(Blocks) : Raises(a, b)
    THEN CHOOSE b \in 1..Len(Blocks) :
            /\ Raises(a, b)
            /\ \A c \in 1..(b - 1) : ~Raises(a, c)
    ELSE 0

\* Number of draw calls that complete.
BlocksDrawn(a) == IF RaisingBlock(a) = 0 THEN Len(Blocks) ELSE RaisingBlock(a) - 1

Size(a) == IF a.num_users > 0 THEN a.num_users ELSE 0

\* b draw calls of n variates each, one after the other, from state s: the
\* blocks drawn and the state the generator is left in.
RECURSIVE DrawCalls(_, _, _)
DrawCalls(s, n, b) ==
    IF b <= 0 THEN [state |-> s, blocks |-> <<>>]
    ELSE LET before == DrawCalls(s, n, b - 1)
         IN  [state |-> Advance(before.state, n),
              blocks |-> Append(before.blocks, DrawBlock(before.state, n))]

\* The raw draws of an invocation that runs alone: np.random.seed(seed), then
\* the blocks one after the other from the seeded state.
SoloDraws(s, a) ==
    DrawCalls(seed_generator(s, a.seed), Size(a), Len(Blocks)).blocks

\* range(num_users) in place of range(1, num_users + 1)
userid_zero_based(i) == i - 1

\* 'userid': range(1, num_users + 1)
userid(i) == i

\* list.index: 0-based position of the first occurrence.
IndexOf(vocab, x) == (CHOOSE j \in 1..Len(vocab) :
                         /\ vocab[j] = x
                         /\ \A k \in 1..(j - 1) : vocab[k] # x) - 1

\* A 1-based position in place of list.index's 0-based one.
BucketOneBased(vocab, x, K) == (IndexOf(vocab, x) + 1) % K

\* lines 49-51: vocab.index(x) % K
Bucket(vocab, x, K) == IndexOf(vocab, x) % K

\* np.random.choice(vocab, n): vocab[randint(0, len(vocab))]
Choice(vocab, raw) == vocab[Below(raw, Len(vocab)) + 1]

\* np.random.choice(ab_groups, n, p=[1/3, 1/3, 1/3]): the cdf of p is searched
\* for u, which gives floor(3 u).
ChoiceP(vocab, raw) == vocab[Below(raw, 3) + 1]

\* line 46, in tenths: 10 + age / 10 + engagement_score
base_value(age, engagement) == 100 + age + 10 * engagement

\* lines 54-56: np.random.uniform(-1, 5) * idx
Effect(raw, idx) == Uniform(raw, -1, 5) * idx

\* line 62: which users take the first range of np.where
IsTreated(abgroup) == abgroup = TreatmentLabel

\* lines 61-65, in percent: both ranges are drawn for every user, np.where
\* picks one of the two.
group_effect(abgroup, p, rawT, rawO) ==
    IF IsTreated(abgroup)
    THEN Uniform(rawT, (-1) * p, p * 3)
    ELSE Uniform(rawO, (-2) * p, p * 2)

\* line 68, in two-thousandths:
\* base_value * (1 + category_effect) * (1 + group_effect) + normal(0, noise_level)
value(base, cat, grp, noise) ==
    2 * base * (1 + cat) * (100 + grp) + 2000 * noise

\* sin(engagement_score / 2), in tenths, for the scores 0..9.
SinHalf(e) == <<0, 5, 8, 10, 9, 6, 1, -4, -8, -10>>[e + 1]

\* The pre-period outcome with the group effect applied to it too.
pre_test_value_leaky(base, cat, grp, e, rawC, rawS, rawW, rawO) ==
    (base * (2 + Normal(rawC, 2, 1) * cat) * (100 + Normal(rawS, 0, 5))
          * (100 + grp)) \div 100
    + 50 * SinHalf(e) * Uniform(rawW, -2, 2)
    + 2000 * Normal(rawO, -1, 1)

\* lines 71-73, in two-thousandths:
\* base_value * (1 + normal(1, 0.5) * category_effect) * (1 + normal(0, 0.05))
\*   + 0.5 * sin(engagement_score / 2) * uniform(-1, 1) + normal(-1, 1)
\* with normal(1, 0.5) in halves, normal(0, 0.05) in percent and
\* uniform(-1, 1) in halves.  The group effect grp is at hand on these lines
\* and is not used.
pre_test_value(base, cat, grp, e, rawC, rawS, rawW, rawO) ==
    base * (2 + Normal(rawC, 2, 1) * cat) * (100 + Normal(rawS, 0, 5))
    + 50 * SinHalf(e) * Uniform(rawW, -2, 2)
    + 2000 * Normal(rawO, -1, 1)

Columns == {"userid", "country", "platform", "user_segment", "abgroup", "age",
            "engagement_score", "country_idx", "platform_idx", "segment_idx",
            "value", "pre_test_value"}

\* Everything the function computes for user i from the raw draws d (one
\* entry per block): the columns of the row and the local arrays.
Compute(a, d, i) ==
    LET raw(name) == d[BlockNo(name)][i]
        cty == Choice(a.countries, raw("country"))
        plt == Choice(a.platforms, raw("platform"))
        seg == Choice(a.user_segments, raw("user_segment"))
        grp == ChoiceP(a.ab_groups, raw("abgroup"))
        age == AgeLow + Below(raw("age"), AgeHigh - AgeLow)
        eng == Below(raw("engagement_score"), EngagementScale)
        cidx == Bucket(a.countries, cty, CountryBuckets)
        pidx == Bucket(a.platforms, plt, PlatformBuckets)
        sidx == Bucket(a.user_segments, seg, SegmentBuckets)
        ce == Effect(raw("country_mult"), cidx)
        pe == Effect(raw("platform_mult"), pidx)
        se == Effect(raw("segment_mult"), sidx)
        cat == ce + pe + se
        base == base_value(age, eng)
        ge == group_effect(grp, a.base_increase_percentage,
                           raw("treatment"), raw("other"))
        noise == Normal(raw("noise"), 0, a.noise_level)
    IN  [row |->
            [userid |-> userid(i), country |-> cty, platform |-> plt,
             user_segment |-> seg, abgroup |-> grp, age |-> age,
             engagement_score |-> eng, country_idx |-> cidx,
             platform_idx |-> pidx, segment_idx |-> sidx,
             value |-> value(base, cat, ge, noise),
             pre_test_value |->
                pre_test_value(base, cat, ge, eng, raw("coupling"),
                               raw("scaling"), raw("wobble"), raw("offset"))],
         local |->
            [base_value |-> base, country_effect |-> ce,
             platform_effect |-> pe, segment_effect |-> se,
             category_effect |-> cat, group_effect |-> ge,
             treatment_draw |-> Uniform(raw("treatment"),
                                        (-1) * a.base_increase_percentage,
                                        a.base_increase_percentage * 3),
             other_draw |-> Uniform(raw("other"),
                                    (-2) * a.base_increase_percentage,
                                    a.base_increase_percentage * 2),
             noise |-> noise]]

NoTable == [columns |-> {}, rows |-> <<>>]

NoResult == [status |-> "none", table |-> NoTable, locals |-> <<>>]

\* describe_dataset prints and returns nothing; it leaves df as it is.
describe_dataset(df) == df

\* The table (and the local arrays) built from the raw draws d.
BuildTable(a, d) ==
    LET n == Size(a)
        all == [i \in 1..n |-> Compute(a, d, i)]
    IN  [status |-> "table",
         table |-> describe_dataset([columns |-> Columns,
                                     rows |-> [i \in 1..n |-> all[i].row]]),
         locals |-> [i \in 1..n |-> all[i].local]]

\* The function run without interruption from generator state s: the
\* exception of the first call that raises, and no table; otherwise the table.
generate_synthetic_data(s, a) ==
    IF RaisingBlock(a) # 0
    THEN [status |-> "ValueError", table |-> NoTable, locals |-> <<>>]
    ELSE BuildTable(a, SoloDraws(s, a))

\* The generator's state when the function returns or raises.
StateAfter(s, a) ==
    DrawCalls(seed_generator(s, a.seed), Size(a), BlocksDrawn(a)).state

(***************************************************************************)
(* create_dataframes                                                       *)
(***************************************************************************)

\* The reads with df["platform"] left out.
AccessedShort == <<"userid", "value", "userid", "pre_test_value", "userid",
                   "abgroup", "userid", "age", "country">>

\* The columns the function reads, in the order it reads them (lines 83-105).
Accessed == <<"userid", "value", "userid", "pre_test_value", "userid",
              "abgroup", "userid", "age", "country", "platform">>

\* df[c] of an absent column raises KeyError: the first such access, or 0.
FirstMissing(df) ==
    IF \E k \in 1..Len(Accessed) : Accessed[k] \notin df.columns
    THEN CHOOSE k \in 1..Len(Accessed) :
            /\ Accessed[k] \notin df.columns
            /\ \A j \in 1..(k - 1) : Accessed[j] \in df.columns
    ELSE 0

\* lines 81-86
event_data1(df) ==
    [i \in 1..Len(df.rows) |->
        [timestamp |-> PostDay, userid |-> df.rows[i].userid,
         event_name |-> "purchase", purchase_value |-> df.rows[i].value]]

\* The second event table filled from df["value"], as the first is.
event_data2_post(df) ==
    [i \in 1..Len(df.rows) |->
        [timestamp |-> PreDay, userid |-> df.rows[i].userid,
         event_name |-> "purchase", purchase_value |-> df.rows[i].value]]

\* lines 88-93
event_data2(df) ==
    [i \in 1..Len(df.rows) |->
        [timestamp |-> PreDay, userid |-> df.rows[i].userid,
         event_name |-> "purchase",
         purchase_value |-> df.rows[i].pre_test_value]]

\* The allocation rows stamped with the post-period day.
user_allocations_late(df) ==
    [i \in 1..Len(df.rows) |->
        [timestamp |-> PostDay, userid |-> df.rows[i].userid,
         abgroup |-> df.rows[i].abgroup]]

\* lines 95-99
user_allocations(df) ==
    [i \in 1..Len(df.rows) |->
        [timestamp |-> AllocationDay, userid |-> df.rows[i].userid,
         abgroup |-> df.rows[i].abgroup]]

\* lines 101-107
user_properties(df) ==
    [i \in 1..Len(df.rows) |->
        [userid |-> df.rows[i].userid, age |-> df.rows[i].age,
         country |-> df.rows[i].country, device_type |-> df.rows[i].platform,
         membership_status |-> "Free"]]

NoProjection ==
    [status |-> "none", event_data |-> <<>>, user_allocations |-> <<>>,
     user_properties |-> <<>>, df |-> NoTable]

\* What the caller holds after the call: the three tables, or the KeyError
\* of the first absent column and no table.  df is the argument as the call
\* leaves it: the function never assigns into it.
create_dataframes(df) ==
    IF FirstMissing(df) # 0
    THEN [status |-> "KeyError", event_data |-> <<>>,
          user_allocations |-> <<>>, user_properties |-> <<>>, df |-> df]
    ELSE [status |-> "tables",
          event_data |-> event_data1(df) \o event_data2(df),
          user_allocations |-> user_allocations(df),
          user_properties |-> user_properties(df),
          df |-> df]

(***************************************************************************)
(* Inputs                                                                  *)
(***************************************************************************)
Seeds == DefaultSeed..(DefaultSeed + SeedSpan)

UserCounts == (-1)..MaxUsers

SingleVocab == [countries |-> <<"US">>, platforms |-> <<"iOS">>,
                user_segments |-> <<"Segment_1">>]

WideVocab == [countries |-> <<"US", "UK", "DE", "FR">>,
              platforms |-> <<"iOS", "Android", "Web">>,
              user_segments |-> <<"Segment_1", "Segment_2", "Segment_3",
                                  "Segment_4", "Segment_5">>]

Vocabularies ==
    {SingleVocab, WideVocab,
     [WideVocab EXCEPT !.countries = <<>>],
     [WideVocab EXCEPT !.platforms = <<>>],
     [SingleVocab EXCEPT !.user_segments = <<>>]}

AbGroups == {<<"a1", "a2", "b">>, <<"b", "a1", "a2">>, <<"c", "t1", "t2">>,
             <<"a", "a", "b">>, <<"a", "b">>}

\* base_increase_percentage, in percent
Percentages == {-5, 0, 5}

NoiseLevels == {-1, 0, 1}

Params ==
    {[num_users |-> n, countries |-> v.countries, platforms |-> v.platforms,
      user_segments |-> v.user_segments, ab_groups |-> g,
      base_increase_percentage |-> p, noise_level |-> s, seed |-> sd] :
        n \in UserCounts, v \in Vocabularies, g \in AbGroups,
        p \in Percentages, s \in NoiseLevels, sd \in Seeds}

NoArgs == [num_users |-> 0, countries |-> <<>>, platforms |-> <<>>,
           user_segments |-> <<>>, ab_groups |-> <<>>,
           base_increase_percentage |-> 0, noise_level |-> 0, seed |-> 0]

\* The constraints of the synthesizer's contract.
Distinct(seq) == \A i, j \in 1..Len(seq) : i # j => seq[i] # seq[j]

Valid(a) ==
    /\ a.num_users > 0
    /\ Len(a.countries) > 0 /\ Len(a.platforms) > 0
    /\ Len(a.user_segments) > 0
    /\ Len(a.ab_groups) = 3 /\ Distinct(a.ab_groups)
    /\ a.base_increase_percentage >= 0
    /\ a.noise_level >= 0

\* A caller's selection from a table: some columns dropped, some rows kept.
Select(df, drop, keep) ==
    [columns |-> df.columns \ drop,
     rows |-> [k \in 1..Len(keep) |->
                 [c \in df.columns \ drop |-> df.rows[keep[k]][c]]]]

\* The increasing sequences of row numbers of a table of n rows.
RECURSIVE SubSeqs(_)
SubSeqs(n) ==
    IF n = 0 THEN {<<>>}
    ELSE SubSeqs(n - 1) \cup {Append(q, n) : q \in SubSeqs(n - 1)}

Drops == {d \in SUBSET Columns : Cardinality(d) <= MaxDropped}

(***************************************************************************)
(* The sequential caller                                                   *)
(***************************************************************************)
Workers == {1, 2}

Init ==
    /\ rng \in 0..(RngMod - 1)
    /\ pc = "start"
    /\ args = NoArgs /\ out = NoResult
    /\ prevArgs = NoArgs /\ prevOut = NoResult
    /\ given = NoTable /\ proj = NoProjection
    /\ wpc = [w \in Workers |-> "idle"]
    /\ wargs = [w \in Workers |-> NoArgs]
    /\ wdraws = [w \in Workers |-> <<>>]
    /\ wout = [w \in Workers |-> NoResult]
    /\ running = 0 /\ preempts = 0

\* Other code of the process draws one variate from np.random: before the
\* first invocation, or after it, when the caller has moved on from it.
AmbientDraw ==
    /\ pc \in {"start", "generated", "between"}
    /\ \A w \in Workers : wpc[w] = "idle"
    /\ rng' = Step(rng)
    /\ pc' = IF pc = "start" THEN "start" ELSE "between"
    /\ UNCHANGED <<args, out, prevArgs, prevOut, given, proj, concVars>>

\* The whole of generate_synthetic_data(a), from whatever state the
\* generator is in.
Call(a) ==
    /\ rng' = StateAfter(rng, a)
    /\ args' = a
    /\ out' = generate_synthetic_data(rng, a)

Generate ==
    /\ pc = "start"
    /\ \E a \in Params : Call(a)
    /\ pc' = "generated"
    /\ UNCHANGED <<prevArgs, prevOut, given, proj, concVars>>

\* create_dataframes on the table just generated or on a selection from it
\* (run_analysis, called on the generated table).
Project ==
    /\ pc = "generated"
    /\ out.status = "table"
    /\ \E drop \in Drops, keep \in SubSeqs(Len(out.table.rows)) :
          /\ given' = Select(out.table, drop, keep)
          /\ proj' = create_dataframes(Select(out.table, drop, keep))
    /\ pc' = "projected"
    /\ UNCHANGED <<rng, args, out, prevArgs, prevOut, concVars>>

Next == AmbientDraw \/ Generate \/ Project

Spec == Init /\ [][Next]_vars

\* A second invocation, which differs from the first at most in the
\* treatment-assignment inputs: ab_groups and base_increase_percentage.
Reinvoke ==
    /\ pc \in {"generated", "between"}
    /\ \E g \in AbGroups, p \in Percentages :
          Call([args EXCEPT !.ab_groups = g, !.base_increase_percentage = p])
    /\ prevArgs' = args
    /\ prevOut' = out
    /\ pc' = "regenerated"
    /\ UNCHANGED <<given, proj, concVars>>

NextPair == AmbientDraw \/ Generate \/ Reinvoke

SpecPair == Init /\ [][NextPair]_vars

(***************************************************************************)
(* Concurrent invocations: one per worker thread, all on the one           *)
(* process-wide generator.  The interpreter may switch threads between     *)
(* any two numpy calls; each numpy call holds the generator's lock.        *)
(***************************************************************************)
WorkerParams ==
    {a \in Params : /\ Valid(a)
                    /\ a.countries = WideVocab.countries
                    /\ a.ab_groups = <<"a1", "a2", "b">>
                    /\ a.base_increase_percentage = 5
                    /\ a.noise_level = 1}

\* Worker w takes the next step; taking over from a worker that has started
\* and not returned is a preemption.
Schedule(w) ==
    LET preempting == /\ running \notin {0, w}
                      /\ wpc[running] = "running"
    IN  /\ preempting => preempts < MaxPreempt
        /\ preempts' = IF preempting THEN preempts + 1 ELSE preempts
        /\ running' = w

\* line 31
WSeed(w) ==
    /\ wpc[w] = "idle"
    /\ Schedule(w)
    /\ \E a \in WorkerParams :
          /\ wargs' = [wargs EXCEPT ![w] = a]
          /\ rng' = seed_generator(rng, a.seed)
    /\ wpc' = [wpc EXCEPT ![w] = "running"]
    /\ UNCHANGED <<wdraws, wout, seqVars>>

\* the next of the draw calls
WDraw(w) ==
    /\ wpc[w] = "running"
    /\ Len(wdraws[w]) < Len(Blocks)
    /\ Schedule(w)
    /\ wdraws' = [wdraws EXCEPT
                    ![w] = Append(@, DrawBlock(rng, Size(wargs[w])))]
    /\ rng' = Advance(rng, Size(wargs[w]))
    /\ UNCHANGED <<wpc, wargs, wout, seqVars>>

\* line 78
WReturn(w) ==
    /\ wpc[w] = "running"
    /\ Len(wdraws[w]) = Len(Blocks)
    /\ Schedule(w)
    /\ wout' = [wout EXCEPT ![w] = BuildTable(wargs[w], wdraws[w])]
    /\ wpc' = [wpc EXCEPT ![w] = "returned"]
    /\ UNCHANGED <<rng, wargs, wdraws, seqVars>>

NextConc == \E w \in Workers : WSeed(w) \/ WDraw(w) \/ WReturn(w)

SpecConc == Init /\ [][NextConc]_vars

(***************************************************************************)
(* Properties                                                              *)
(***************************************************************************)
Returned == pc # "start" /\ out.status = "table"

Projected == pc = "projected" /\ proj.status = "tables"

Elements(seq) == {seq[i] : i \in 1..Len(seq)}

\* Indices of the rows of table t that carry userid u.
RowsOf(t, u) == {k \in 1..Len(t) : t[k].userid = u}

\* C1: for num_users = N > 0, non-empty vocabularies and arguments numpy
\* accepts, generate_synthetic_data returns a table of exactly N rows whose
\* userid column is 1..N, and create_dataframes of that table returns an event
\* log of 2N rows and allocation and properties tables of N rows each.
C1_Cardinality ==
    /\ ( /\ pc # "start"
         /\ args.num_users > 0
         /\ Len(args.countries) > 0 /\ Len(args.platforms) > 0
         /\ Len(args.user_segments) > 0
         /\ Len(args.ab_groups) = 3 /\ args.noise_level >= 0 )
       => /\ out.status = "table"
          /\ Len(out.table.rows) = args.num_users
          /\ \A i \in 1..args.num_users : out.table.rows[i].userid = i
    /\ (pc = "projected" /\ args.num_users > 0 /\ given = out.table)
       => /\ proj.status = "tables"
          /\ Len(proj.event_data) = 2 * args.num_users
          /\ Len(proj.user_allocations) = args.num_users
          /\ Len(proj.user_properties) = args.num_users

C1_Witness ==
    /\ Projected /\ given = out.table
    /\ args.num_users >= 2
    /\ Len(args.countries) > 1
    /\ Len(proj.event_data) = 2 * args.num_users

\* C2: two invocations of generate_synthetic_data with identical arguments,
\* seed included, end the same way and return identical tables, whatever was
\* drawn from the generator before each of them.
C2_Determinism ==
    (pc = "regenerated" /\ prevArgs = args)
    => /\ prevOut.status = out.status
       /\ prevOut.table = out.table

C2_Witness ==
    /\ pc = "regenerated" /\ prevArgs = args
    /\ Valid(args) /\ out.status = "table"
    /\ Len(out.table.rows) >= 2
    /\ Len(args.countries) > 1

\* C3: each concurrent invocation returns the table it would return when run
\* alone with its seed and arguments, under every interleaving of the draws.
C3_IsolatedWorkers ==
    \A w \in Workers :
        wpc[w] = "returned"
        => \A s \in 0..(RngMod - 1) :
              wout[w] = generate_synthetic_data(s, wargs[w])

\* C4: generate_synthetic_data ends in an error and produces no table when
\* num_users <= 0, a vocabulary is empty, ab_groups is not 3 distinct labels,
\* or noise_level or base_increase_percentage is negative.
C4_InvalidParametersRejected ==
    (pc # "start" /\ ~Valid(args))
    => /\ out.status = "ValueError"
       /\ out.table = NoTable

\* C5: for a population with unique userids, the event log holds for each
\* userid exactly two rows, both 'purchase': one at the earlier timestamp with
\* the user's pre_test_value and one at the later timestamp with the user's
\* value; the allocation and properties tables hold each userid exactly once.
C5_TwoEventsPerUser ==
    Projected
    => \A k \in 1..Len(given.rows) :
          LET u == given.rows[k].userid
              ev == RowsOf(proj.event_data, u)
          IN  /\ Cardinality(ev) = 2
              /\ \A e \in ev : proj.event_data[e].event_name = "purchase"
              /\ \E e1, e2 \in ev :
                    /\ proj.event_data[e1].timestamp
                         < proj.event_data[e2].timestamp
                    /\ proj.event_data[e1].purchase_value
                         = given.rows[k].pre_test_value
                    /\ proj.event_data[e2].purchase_value
                         = given.rows[k].value
              /\ Cardinality(RowsOf(proj.user_allocations, u)) = 1
              /\ Cardinality(RowsOf(proj.user_properties, u)) = 1

C5_Witness ==
    /\ Projected
    /\ Len(given.rows) >= 2
    /\ given.rows[1].userid # 1
    /\ \E k \in 1..Len(given.rows) :
          given.rows[k].value # given.rows[k].pre_test_value

\* C6: for every userid, the timestamp of the event row carrying
\* pre_test_value is before that of its allocation row, which is before that
\* of the event row carrying value.
C6_TimestampOrder ==
    Projected
    => \A k \in 1..Len(given.rows) :
          LET u == given.rows[k].userid
          IN  \A a \in RowsOf(proj.user_allocations, u) :
                 \E e1, e2 \in RowsOf(proj.event_data, u) :
                    /\ e1 # e2
                    /\ proj.event_data[e1].purchase_value
                         = given.rows[k].pre_test_value
                    /\ proj.event_data[e2].purchase_value
                         = given.rows[k].value
                    /\ proj.event_data[e1].timestamp
                         < proj.user_allocations[a].timestamp
                    /\ proj.user_allocations[a].timestamp
                         < proj.event_data[e2].timestamp

C6_Witness ==
    /\ Projected
    /\ Len(given.rows) >= 2
    /\ Len(proj.user_allocations) = Len(given.rows)
    /\ \A a \in 1..Len(proj.user_allocations) :
          proj.user_allocations[a].timestamp = AllocationDay

\* C7: for every ab_groups of three distinct labels (the other arguments
\* valid) exactly one supplied label is the treatment label: a user's group effect is the draw from [-p, 3p]
\* exactly when the user's abgroup is that label, and the draw from [-2p, 2p]
\* otherwise.
C7_OneTreatmentLabel ==
    (Returned /\ Valid(args))
    => \E L \in Elements(args.ab_groups) :
          /\ \A l \in Elements(args.ab_groups) : IsTreated(l) <=> l = L
          /\ \A i \in 1..Len(out.table.rows) :
                out.locals[i].group_effect
                  = IF out.table.rows[i].abgroup = L
                    THEN out.locals[i].treatment_draw
                    ELSE out.locals[i].other_draw

\* C8: two runs with the same seed that differ only in ab_groups or in
\* base_increase_percentage produce the same pre_test_value for every userid.
C8_PreValueUntreated ==
    (pc = "regenerated" /\ prevOut.status = "table" /\ out.status = "table")
    => /\ Len(prevOut.table.rows) = Len(out.table.rows)
       /\ \A i \in 1..Len(out.table.rows) :
             /\ prevOut.table.rows[i].userid = out.table.rows[i].userid
             /\ prevOut.table.rows[i].pre_test_value
                  = out.table.rows[i].pre_test_value

C8_Witness ==
    /\ pc = "regenerated" /\ Valid(prevArgs) /\ Valid(args)
    /\ prevOut.status = "table" /\ out.status = "table"
    /\ prevArgs.ab_groups # args.ab_groups
    /\ prevArgs.base_increase_percentage # args.base_increase_percentage
    /\ \E i \in 1..Len(out.table.rows) :
          /\ prevOut.table.rows[i].value # out.table.rows[i].value
          /\ prevOut.table.rows[i].abgroup # out.table.rows[i].abgroup

\* C9: each bucket is (position of the user's value in the vocabulary) mod K,
\* K = 3 for country, 2 for platform, 4 for user_segment, and lies in [0, K);
\* a bucket of 0 contributes zero to the category effect; with single-element
\* vocabularies the category effect is 0 and value is
\* base_effect * (1 + group_effect) + noise.
C9_Buckets ==
    Returned
    => \A i \in 1..Len(out.table.rows) :
          LET r == out.table.rows[i]
              l == out.locals[i]
          IN  /\ \E j \in 1..Len(args.countries) :
                    /\ args.countries[j] = r.country
                    /\ r.country_idx = (j - 1) % 3
              /\ \E j \in 1..Len(args.platforms) :
                    /\ args.platforms[j] = r.platform
                    /\ r.platform_idx = (j - 1) % 2
              /\ \E j \in 1..Len(args.user_segments) :
                    /\ args.user_segments[j] = r.user_segment
                    /\ r.segment_idx = (j - 1) % 4
              /\ r.country_idx \in 0..2
              /\ r.platform_idx \in 0..1
              /\ r.segment_idx \in 0..3
              /\ r.country_idx = 0 => l.country_effect = 0
              /\ r.platform_idx = 0 => l.platform_effect = 0
              /\ r.segment_idx = 0 => l.segment_effect = 0
              /\ l.category_effect
                   = l.country_effect + l.platform_effect + l.segment_effect
              /\ ( /\ Len(args.countries) = 1 /\ Len(args.platforms) = 1
                   /\ Len(args.user_segments) = 1 )
                 => /\ l.category_effect = 0
                    /\ r.value = 2 * l.base_value * (100 + l.group_effect)
                                   + 2000 * l.noise

C9_Witness ==
    /\ Returned
    /\ \E i \in 1..Len(out.table.rows) :
          /\ out.table.rows[i].country = "FR"
          /\ out.table.rows[i].country_idx = 0
          /\ out.locals[i].country_effect = 0
          /\ out.locals[i].category_effect # 0

\* C10: when the population lacks a required column, create_dataframes ends
\* in an error, returns none of the three tables and leaves the population
\* unchanged; when all are present it returns the tables and leaves the
\* population unchanged.
C10_MissingColumns ==
    LET required == {"userid", "value", "pre_test_value", "abgroup", "age",
                     "country", "platform"}
    IN  pc = "projected"
        => /\ proj.df = given
           /\ IF required \subseteq given.columns
              THEN proj.status = "tables"
              ELSE /\ proj.status = "KeyError"
                   /\ proj.event_data = <<>>
                   /\ proj.user_allocations = <<>>
                   /\ proj.user_properties = <<>>

C10_Witness ==
    /\ pc = "projected"
    /\ "platform" \notin given.columns
    /\ Len(given.rows) >= 2
    /\ proj.status = "KeyError"

====
